---- MODULE Spec2Model ----
(***************************************************************************)
(* Sumcheck over multilinear polynomials with a Fiat-Shamir transcript:    *)
(* the mlpoly crate (MLPoly), and the sumcheck crate (Transcript,          *)
(* RoundPoly, SumcheckProof, PolyOracle, prove, verify).                   *)
(*                                                                         *)
(* Field elements are the integers modulo FieldP.  A byte string is a      *)
(* sequence of numbers in 0..255.  The state of the Blake2s hasher is the  *)
(* byte stream it has absorbed together with a chaining value computed     *)
(* from it; Compress and finalize_fixed_reset stand for the hash function. *)
(***************************************************************************)
EXTENDS Integers, Sequences, FiniteSets, TLC

\* ------------------------------------------------------------------ bounds

\* The field modulus (ark_bn254::Fr in the tests; the code is generic).
FieldP == 3
\* The number of values the finalized hash output can take.
DigestMod == 7
\* Polynomials have 0..MaxVars variables.
MaxVars == 2
\* Evaluation tables given to the prover hold values in 0..MaxEval.
MaxEval == 1
\* A deserialized RoundPoly record holds 0..MaxRoundEvals evaluations.
MaxRoundEvals == 3
\* Operations applied to one transcript in the replay specification.
MaxOps == 2

\* ------------------------------------------------------------------- state

VARIABLES
    stmt,          \* Statement { n_vars, claim_sum }
    stmt_again,    \* the Statement handed to the second call of prove
    poly,          \* the polynomial given to prove
    domain,        \* the domain label of the protocol's transcripts
    p_pc,          \* per run of prove: "loop", "done" or "panic"
    current_poly,  \* per run: prove's current_poly
    round_polys,   \* per run: prove's round_polys
    pt,            \* per run: the prover's transcript
    p_r,           \* per run: the challenges r prove has derived, in order
    oracle,        \* the PolyOracle given to verify
    forged,        \* the proof given to verify is not the prover's
    proof,         \* proof.round_polys (forged: the entries verify has read)
    proof_len,     \* proof.num_rounds()
    v_pc,          \* verify's position
    claim,         \* verify's claim
    r_vec,         \* verify's r_vec
    vt,            \* the verifier's transcript
    result,        \* what verify returned
    queries,       \* the points the oracle was queried at
    issued,        \* challenge_scalar calls made in this process so far
    ta,            \* replay: the two transcripts
    tdomain,       \* replay: the domain each was created with
    tlog,          \* replay: the calls made on each, in order
    touts,         \* replay: the challenges each returned, in order
    tforks,        \* replay: the bytes each challenge's fork had absorbed
    tbefore,       \* replay: each transcript as it was before its last call
    mlp,           \* the MLPoly at hand in the polynomial specification
    call           \* the last MLPoly call made: receiver, arguments, outcome

prover_vars == << p_pc, current_poly, round_polys, pt, p_r >>

verifier_vars == << proof, proof_len, v_pc, claim, r_vec, vt, result, queries >>

input_vars == << stmt, stmt_again, poly, domain, oracle, forged >>

replay_vars == << ta, tdomain, tlog, touts, tforks, tbefore >>

poly_vars == << mlp, call >>

vars ==
    << input_vars, prover_vars, verifier_vars, issued, replay_vars, poly_vars >>

\* ------------------------------------------------------- field arithmetic

F == 0 .. (FieldP - 1)

F_ZERO == 0

F_ONE == 1 % FieldP

Add(a, b) == (a + b) % FieldP

Sub(a, b) == (a + FieldP - b) % FieldP

Mul(a, b) == (a * b) % FieldP

RECURSIVE SumSeq(_)
\* Iterator::sum over field elements.
SumSeq(s) == IF s = << >> THEN F_ZERO ELSE Add(Head(s), SumSeq(Tail(s)))

RECURSIVE Pow2(_)
\* 1 << n
Pow2(n) == IF n = 0 THEN 1 ELSE 2 * Pow2(n - 1)

\* ------------------------------------------------------------------ MLPoly

\* MLPoly { n_vars, evals }; evals[i] of the code is evals[i + 1] here.
MLPoly(n, e) == [n_vars |-> n, evals |-> e]

\* usize::BITS, the width of the 1 << n_vars in MLPoly::zero.
usize_BITS == 64

\* 1 << n_vars overflows usize.  A build with overflow checks panics on it;
\* a build without them takes the shift amount modulo usize::BITS.
zero_overflows(n_vars) == n_vars >= usize_BITS

\* MLPoly::zero when it returns: n_vars as given, and 1 << n_vars zeros with
\* the shift amount taken modulo usize::BITS.
zero(n_vars) ==
    MLPoly(n_vars, [i \in 1 .. Pow2(n_vars % usize_BITS) |-> F_ZERO])

\* usize::is_power_of_two
is_power_of_two(len) == \E k \in 0 .. len : Pow2(k) = len

\* MLPoly::from_evals panics unless the length is a power of two.
from_evals_panics(evals) == ~ is_power_of_two(Len(evals))

\* MLPoly::from_evals: n_vars is the number of trailing zero bits of the length.
from_evals(evals) ==
    MLPoly(CHOOSE k \in 0 .. Len(evals) : Pow2(k) = Len(evals), evals)

\* MLPoly::sum_all
sum_all(p) == SumSeq(p.evals)

\* fold_first_var asserts n_vars > 0.
fold_first_var_panics(p) == p.n_vars = 0

\* fold_first_var with the two weights exchanged.
fold_first_var_swapped(p, r) ==
    LET half == Len(p.evals) \div 2
        one_minus_r == Sub(F_ONE, r)
    IN  MLPoly(p.n_vars - 1,
               [i \in 1 .. half |->
                   Add(Mul(p.evals[2 * i - 1], r),
                       Mul(p.evals[2 * i], one_minus_r))])

\* MLPoly::fold_first_var: evals'[i] = evals[2i] * (1 - r) + evals[2i + 1] * r
fold_first_var(p, r) ==
    LET half == Len(p.evals) \div 2
        one_minus_r == Sub(F_ONE, r)
    IN  MLPoly(p.n_vars - 1,
               [i \in 1 .. half |->
                   Add(Mul(p.evals[2 * i - 1], one_minus_r),
                       Mul(p.evals[2 * i], r))])

\* fold_many asserts r_vec.len() <= n_vars.
fold_many_panics(p, rs) == Len(rs) > p.n_vars

RECURSIVE fold_many_reversed(_, _)
\* fold_many going through r_vec from its last element to its first.
fold_many_reversed(p, rs) ==
    IF rs = << >> THEN p
    ELSE fold_many_reversed(fold_first_var(p, rs[Len(rs)]),
                            SubSeq(rs, 1, Len(rs) - 1))

\* fold_many whose loop ends after its first iteration.
fold_many_oneStep(p, rs) ==
    IF rs = << >> THEN p ELSE fold_first_var(p, Head(rs))

RECURSIVE fold_many(_, _)
\* MLPoly::fold_many: fold_first_var for each element of r_vec (rs), in order.
fold_many(p, rs) ==
    IF rs = << >> THEN p
    ELSE fold_many(fold_first_var(p, Head(rs)), Tail(rs))

\* eval_at asserts x.len() == n_vars, and indexes evals[0] of the folded
\* polynomial without a length check.
eval_at_panics(p, x) ==
    \/ Len(x) # p.n_vars
    \/ fold_many(p, x).evals = << >>

\* MLPoly::eval_at
eval_at(p, x) == fold_many(p, x).evals[1]

RECURSIVE SumStride(_, _)
\* The sum of evals[k], evals[k + 2], evals[k + 4], ... (k is 1 or 2).
SumStride(evals, k) ==
    IF k > Len(evals) THEN F_ZERO
    ELSE Add(evals[k], SumStride(evals, k + 2))

\* round_sum_g0_g1 returning the two sums in the other order.
round_sum_g0_g1_swapped(p) ==
    LET half == Len(p.evals) \div 2
        used == SubSeq(p.evals, 1, 2 * half)
    IN  << SumStride(used, 2), SumStride(used, 1) >>

\* MLPoly::round_sum_g0_g1: <<g0, g1>> over j in 0..len/2.
round_sum_g0_g1(p) ==
    LET half == Len(p.evals) \div 2
        used == SubSeq(p.evals, 1, 2 * half)
    IN  << SumStride(used, 1), SumStride(used, 2) >>

\* --------------------------------------------------------------- RoundPoly

\* RoundPoly::new
RoundPoly_new(g0, g1) == [evals |-> << g0, g1 >>]

\* evals[0] and evals[1] are indexed without a length check.
RoundPoly_panics(rp) == Len(rp.evals) < 2

\* RoundPoly::eval_0
eval_0(rp) == rp.evals[1]

\* RoundPoly::eval_1
eval_1(rp) == rp.evals[2]

\* RoundPoly::eval taking g(1) for the slope: g(0) + g(1) * x.
RoundPoly_eval_noSub(rp, x) == Add(rp.evals[1], Mul(rp.evals[2], x))

\* RoundPoly::eval: g(x) = g(0) + (g(1) - g(0)) * x
RoundPoly_eval(rp, x) ==
    Add(rp.evals[1], Mul(Sub(rp.evals[2], rp.evals[1]), x))

\* SumcheckProof::num_rounds
num_rounds(pf) == Len(pf)

\* -------------------------------------------------------------- Transcript

\* b"APPEND_MESSAGE"
TagAppend == << 65, 80, 80, 69, 78, 68, 95, 77, 69, 83, 83, 65, 71, 69 >>

\* b"chal"
TagChal == << 99, 104, 97, 108 >>

\* b"ratchet"
TagRatchet == << 114, 97, 116, 99, 104, 101, 116 >>

\* b"g0"
LabelG0 == << 103, 48 >>

\* b"g1"
LabelG1 == << 103, 49 >>

\* b"r"
LabelR == << 114 >>

\* b"sumcheck-test"
DomainTest == << 115, 117, 109, 99, 104, 101, 99, 107, 45, 116, 101, 115, 116 >>

\* b"my-protocol"
DomainDoc == << 109, 121, 45, 112, 114, 111, 116, 111, 99, 111, 108 >>

\* b"g"
LabelG == << 103 >>

\* b"x"
DomainX == << 120 >>

RECURSIVE le_bytes(_, _)
\* The w low-order bytes of n, least significant first.
le_bytes(n, w) ==
    IF w = 0 THEN << >> ELSE << n % 256 >> \o le_bytes(n \div 256, w - 1)

\* u64::to_le_bytes
to_le_bytes(n) == le_bytes(n, 8)

RECURSIVE BytesNeeded(_)
\* The bytes that hold every number below n.
BytesNeeded(n) == IF n <= 256 THEN 1 ELSE 1 + BytesNeeded((n + 255) \div 256)

\* CanonicalSerialize::serialize_compressed of a field element: its canonical
\* integer, little-endian, in the fixed width of the modulus.
serialize_compressed(x) == le_bytes(x, BytesNeeded(FieldP))

RECURSIVE le_value(_)
\* The number a little-endian byte string spells.
le_value(bytes) ==
    IF bytes = << >> THEN 0 ELSE Head(bytes) + 256 * le_value(Tail(bytes))

\* PrimeField::from_le_bytes_mod_order
from_le_bytes_mod_order(bytes) == le_value(bytes) % FieldP

RECURSIVE Absorb(_, _, _)
\* Absorbing one byte b takes the chaining value h to 33 * h + b + 1 (mod
\* DigestMod).  Absorb gives <<a, c>> such that absorbing bytes[lo..hi]
\* takes h to a * h + c, by halving the range.
Absorb(bytes, lo, hi) ==
    IF lo > hi THEN << 1 % DigestMod, 0 >>
    ELSE IF lo = hi THEN << 33 % DigestMod, (bytes[lo] + 1) % DigestMod >>
    ELSE LET mid == (lo + hi) \div 2
             l == Absorb(bytes, lo, mid)
             r == Absorb(bytes, mid + 1, hi)
         IN  << (r[1] * l[1]) % DigestMod, (r[1] * l[2] + r[2]) % DigestMod >>

\* The hash chaining value after absorbing a byte stream from value cv.
Compress(cv, bytes) ==
    LET m == Absorb(bytes, 1, Len(bytes))
    IN  (m[1] * cv + m[2]) % DigestMod

\* Blake2s256::new: nothing absorbed, the chaining value is the initial one.
Blake2s_new == [absorbed |-> << >>, cv |-> 5381 % DigestMod]

\* Digest::update: the hasher absorbs the bytes.
update(h, bytes) ==
    [absorbed |-> h.absorbed \o bytes, cv |-> Compress(h.cv, bytes)]

\* finalize_fixed_reset: the output bytes, from the chaining value and the
\* number of bytes absorbed.
finalize_fixed_reset(h) ==
    le_bytes((h.cv * 33 + Len(h.absorbed) + 1) % DigestMod, BytesNeeded(DigestMod))

\* Transcript::new
Transcript_new(dom) ==
    [h |-> update(update(update(Blake2s_new, dom), to_le_bytes(Len(dom))), dom),
     ctr |-> 0]

\* A domain label that spells what Transcript::new(b"x") absorbs, followed
\* by the head of an append_message of the empty label and 48 bytes.
DomainFramed ==
    DomainX \o to_le_bytes(Len(DomainX)) \o DomainX
        \o TagAppend \o to_le_bytes(0) \o to_le_bytes(8 + 40)

\* A message of 48 bytes: the length of DomainFramed and DomainFramed.
MessageFramed == to_le_bytes(Len(DomainFramed)) \o DomainFramed

\* Transcript::append_message
append_message(t, label, bytes) ==
    [t EXCEPT !.h =
        update(update(update(update(update(t.h, TagAppend),
            to_le_bytes(Len(label))), label), to_le_bytes(Len(bytes))), bytes)]

\* Transcript::append_field
append_field(t, label, x) == append_message(t, label, serialize_compressed(x))

\* The fork made by challenge_scalar: a clone of the live hasher that absorbs
\* the challenge tag, the label's length, the label and the counter.
challenge_fork(t, label) ==
    update(update(update(update(t.h, TagChal),
        to_le_bytes(Len(label))), label), to_le_bytes(t.ctr))

\* The finalized output of the fork made by challenge_scalar.
challenge_out(t, label) == finalize_fixed_reset(challenge_fork(t, label))

\* challenge_scalar with a counter shared by every transcript of the process
\* in place of the transcript's own.
challenge_scalar_shared(t, label) ==
    LET fork == update(update(update(update(t.h, TagChal),
                    to_le_bytes(Len(label))), label), to_le_bytes(issued))
        out == finalize_fixed_reset(fork)
    IN  << from_le_bytes_mod_order(out),
           [h |-> update(update(t.h, TagRatchet), out), ctr |-> t.ctr + 1] >>

\* challenge_scalar that leaves the counter as it was.
challenge_scalar_noIncrement(t, label) ==
    LET out == challenge_out(t, label)
    IN  << from_le_bytes_mod_order(out),
           [h |-> update(update(t.h, TagRatchet), out), ctr |-> t.ctr] >>

\* challenge_scalar deriving the output on the live hasher, not on a clone.
challenge_scalar_noFork(t, label) ==
    LET fork == challenge_fork(t, label)
        out == finalize_fixed_reset(fork)
    IN  << from_le_bytes_mod_order(out),
           [h |-> update(update(fork, TagRatchet), out), ctr |-> t.ctr + 1] >>

\* Transcript::challenge_scalar: <<the challenge, the transcript afterwards>>.
challenge_scalar(t, label) ==
    LET out == challenge_out(t, label)
    IN  << from_le_bytes_mod_order(out),
           [h |-> update(update(t.h, TagRatchet), out), ctr |-> t.ctr + 1] >>

\* ------------------------------------------------------------------ Oracle

\* PolyOracle::new
PolyOracle_new(p) == [poly |-> p]

\* PolyOracle::query panics where eval_at does.
PolyOracle_query_panics(o, x) == eval_at_panics(o.poly, x)

\* PolyOracle::query
PolyOracle_query(o, x) == eval_at(o.poly, x)

\* ------------------------------------------------------------------ inputs

\* The two calls of prove that are compared.
Runs == {1, 2}

\* Domain labels a caller passes to Transcript::new.
Domains == {DomainTest, DomainDoc}

\* Evaluation tables of n variables with values in 0..MaxEval.
Polys(n) ==
    {MLPoly(n, e) : e \in [1 .. Pow2(n) -> {v % FieldP : v \in 0 .. MaxEval}]}

\* The table 1, 2, 3, ... (mod FieldP) over k variables.
Ramp(k) == MLPoly(k, [i \in 1 .. Pow2(k) |-> i % FieldP])

\* Polynomials an oracle handed to verify may wrap, of every dimension.
OraclePolys == {Ramp(k) : k \in 0 .. MaxVars}

\* RoundPoly records a deserialized proof may hold: every record of at most
\* two evaluations, and records of more whose further evaluations are zero.
RoundPolyValues ==
    {[evals |-> e] : e \in UNION {[1 .. l -> F] : l \in 0 .. 2}}
    \cup {[evals |-> << a, b >> \o [i \in 1 .. l |-> F_ZERO]] :
            a \in F, b \in F, l \in 1 .. (MaxRoundEvals - 2)}

\* The operations applied to a transcript in the replay specification.
TranscriptOps ==
    {[op |-> "append_message", label |-> LabelG0, bytes |-> << >>],
     [op |-> "append_message", label |-> LabelG, bytes |-> << 48 >>],
     [op |-> "append_message", label |-> << >>, bytes |-> MessageFramed],
     [op |-> "append_field", label |-> LabelG0, x |-> F_ONE],
     [op |-> "challenge_scalar", label |-> LabelR],
     [op |-> "challenge_scalar", label |-> LabelG0]}

\* Evaluation vectors a caller hands to from_evals: every length up to
\* 2^MaxVars, a power of two or not, with the values F::ZERO and F::ONE.
Tables == UNION {[1 .. l -> {F_ZERO, F_ONE}] : l \in 0 .. Pow2(MaxVars)}

\* Coordinates of the points polynomials are folded and evaluated at: the
\* two boolean values and the largest field element.
PointValues == {F_ZERO, F_ONE, FieldP - 1}

\* The n_vars handed to MLPoly::zero: 0..MaxVars, and usize::BITS.
ZeroArgs == (0 .. MaxVars) \cup {usize_BITS}

\* The points handed to fold_many and eval_at on a polynomial of n variables:
\* every point of at most n coordinates (of at most MaxVars when n is
\* larger), and one point of n + 1 coordinates.
Points(n) ==
    UNION {[1 .. l -> PointValues] :
                l \in 0 .. (IF n < MaxVars THEN n ELSE MaxVars)}
    \cup {[i \in 1 .. (n + 1) |-> F_ONE]}

\* The domain labels the two transcripts of the replay specification are
\* created with: the same label, or two different ones.
ReplayDomains ==
    {<< DomainTest, DomainTest >>, << DomainTest, DomainDoc >>,
     << DomainX, DomainX >>, << DomainX, DomainFramed >>}

\* The replay variables when the replay specification is not the one run.
ReplayIdle ==
    /\ tdomain = [k \in Runs |-> DomainTest]
    /\ ta = [k \in Runs |-> Transcript_new(DomainTest)]
    /\ tbefore = [k \in Runs |-> Transcript_new(DomainTest)]
    /\ tlog = [k \in Runs |-> << >>]
    /\ touts = [k \in Runs |-> << >>]
    /\ tforks = [k \in Runs |-> << >>]

\* No MLPoly call was made: the polynomial specification is not the one run.
PolyIdle ==
    /\ mlp = zero(0)
    /\ call = [op |-> "none"]

\* The verifier before verify is called, on a fresh transcript.
VerifierFresh ==
    /\ v_pc = "Init"
    /\ proof = << >>
    /\ claim = F_ZERO
    /\ r_vec = << >>
    /\ vt = Transcript_new(domain)
    /\ result = "None"
    /\ queries = << >>

\* The provers at the entry of prove, each on a fresh transcript:
\* current_poly = poly.clone(), round_polys = Vec::with_capacity(n_vars).
ProverFresh ==
    /\ p_pc = [k \in Runs |-> "loop"]
    /\ current_poly = [k \in Runs |-> poly]
    /\ round_polys = [k \in Runs |-> << >>]
    /\ pt = [k \in Runs |-> Transcript_new(domain)]
    /\ p_r = [k \in Runs |-> << >>]

\* An honest run: the caller's statement and polynomial agree on n_vars, the
\* oracle wraps the prover's polynomial, the claimed sum is any field element.
Init ==
    /\ domain = DomainTest
    /\ \E n \in 0 .. MaxVars :
          /\ poly \in Polys(n)
          /\ stmt \in [n_vars : {n}, claim_sum : F]
    /\ stmt_again = stmt
    /\ oracle = PolyOracle_new(poly)
    /\ forged = FALSE
    /\ proof_len = 0
    /\ issued = 0
    /\ ProverFresh
    /\ VerifierFresh
    /\ ReplayIdle
    /\ PolyIdle

\* The prover is not run: verify is handed a proof from elsewhere.
ProverIdle ==
    /\ p_pc = [k \in Runs |-> "idle"]
    /\ current_poly = [k \in Runs |-> poly]
    /\ round_polys = [k \in Runs |-> << >>]
    /\ pt = [k \in Runs |-> Transcript_new(domain)]
    /\ p_r = [k \in Runs |-> << >>]

\* verify on inputs of any origin: a statement, a proof of any declared
\* length whose records are read as verify reaches them, an oracle over a
\* polynomial of any dimension, and a fresh transcript.
InitVerify ==
    /\ domain \in Domains
    /\ stmt \in [n_vars : 0 .. MaxVars, claim_sum : F]
    /\ stmt_again = stmt
    /\ poly = zero(0)
    /\ oracle \in {PolyOracle_new(p) : p \in OraclePolys}
    /\ forged = TRUE
    /\ proof_len \in 0 .. (MaxVars + 1)
    /\ issued = 0
    /\ ProverIdle
    /\ VerifierFresh
    /\ ReplayIdle
    /\ PolyIdle

\* Two transcripts, each created with a domain label, driven independently.
InitReplay ==
    /\ domain = DomainTest
    /\ stmt = [n_vars |-> 0, claim_sum |-> F_ZERO]
    /\ stmt_again = stmt
    /\ poly = zero(0)
    /\ oracle = PolyOracle_new(poly)
    /\ forged = FALSE
    /\ proof_len = 0
    /\ issued = 0
    /\ ProverIdle
    /\ VerifierFresh
    /\ tdomain \in ReplayDomains
    /\ ta = [k \in Runs |-> Transcript_new(tdomain[k])]
    /\ tbefore = [k \in Runs |-> Transcript_new(tdomain[k])]
    /\ tlog = [k \in Runs |-> << >>]
    /\ touts = [k \in Runs |-> << >>]
    /\ tforks = [k \in Runs |-> << >>]
    /\ PolyIdle

\* prove runs on a polynomial and its sum; verify is handed the statement, a
\* proof of the right length that need not be the prover's, the oracle over
\* the polynomial and a fresh transcript of the prover's domain.
InitTamper ==
    /\ domain = DomainTest
    /\ poly \in OraclePolys
    /\ stmt = [n_vars |-> poly.n_vars, claim_sum |-> sum_all(poly)]
    /\ stmt_again = stmt
    /\ oracle = PolyOracle_new(poly)
    /\ forged = TRUE
    /\ proof_len = stmt.n_vars
    /\ issued = 0
    /\ ProverFresh
    /\ VerifierFresh
    /\ ReplayIdle
    /\ PolyIdle

\* The polynomials of the claim-independence runs: the table 1, 2, 3, ... of
\* every dimension and every constant polynomial.
ClaimPolys == OraclePolys \cup Polys(0)

\* An honest prover called twice on the same polynomial and domain, with
\* statements of the same n_vars whose claimed sums are any two field
\* elements; verify is handed the first statement and the first proof.
InitClaims ==
    /\ domain = DomainTest
    /\ poly \in ClaimPolys
    /\ stmt \in [n_vars : {poly.n_vars}, claim_sum : F]
    /\ stmt_again \in [n_vars : {poly.n_vars}, claim_sum : F]
    /\ oracle = PolyOracle_new(poly)
    /\ forged = FALSE
    /\ proof_len = 0
    /\ issued = 0
    /\ ProverFresh
    /\ VerifierFresh
    /\ ReplayIdle
    /\ PolyIdle

\* MLPoly values built and used through the crate's methods; the protocol
\* is not run.
InitPoly ==
    /\ domain = DomainTest
    /\ stmt = [n_vars |-> 0, claim_sum |-> F_ZERO]
    /\ stmt_again = stmt
    /\ poly = zero(0)
    /\ oracle = PolyOracle_new(poly)
    /\ forged = FALSE
    /\ proof_len = 0
    /\ issued = 0
    /\ ProverIdle
    /\ VerifierFresh
    /\ ReplayIdle
    /\ PolyIdle

\* ------------------------------------------------------------------- prove

VerifyReturned == v_pc \in {"Accepted", "Rejected", "Error", "Aborted"}

\* The stmt argument of call k of prove.
StmtOf(k) == IF k = 1 THEN stmt ELSE stmt_again

\* prove's loop absorbing stmt.claim_sum into the transcript before g0.
ProveRound_bindClaim(k) ==
    /\ p_pc[k] = "loop"
    /\ k = 1 \/ VerifyReturned
    /\ Len(round_polys[k]) < StmtOf(k).n_vars
    /\ LET g == round_sum_g0_g1(current_poly[k])
           round_poly == RoundPoly_new(g[1], g[2])
           t0 == append_field(pt[k], LabelG, StmtOf(k).claim_sum)
           t1 == append_field(t0, LabelG0, g[1])
           t2 == append_field(t1, LabelG1, g[2])
           cs == challenge_scalar(t2, LabelR)
       IN  /\ round_polys' = [round_polys EXCEPT ![k] = Append(@, round_poly)]
           /\ pt' = [pt EXCEPT ![k] = cs[2]]
           /\ p_r' = [p_r EXCEPT ![k] = Append(@, cs[1])]
           /\ issued' = issued + 1
           /\ IF fold_first_var_panics(current_poly[k])
              THEN /\ p_pc' = [p_pc EXCEPT ![k] = "panic"]
                   /\ UNCHANGED current_poly
              ELSE /\ current_poly' =
                        [current_poly EXCEPT ![k] = fold_first_var(@, cs[1])]
                   /\ UNCHANGED p_pc
    /\ UNCHANGED << poly_vars, input_vars, verifier_vars, replay_vars >>


\* prove's loop taking one iteration more than stmt.n_vars.
ProveRound_oneMore(k) ==
    /\ p_pc[k] = "loop"
    /\ k = 1 \/ VerifyReturned
    /\ Len(round_polys[k]) <= StmtOf(k).n_vars
    /\ LET g == round_sum_g0_g1(current_poly[k])
           round_poly == RoundPoly_new(g[1], g[2])
           t1 == append_field(pt[k], LabelG0, g[1])
           t2 == append_field(t1, LabelG1, g[2])
           cs == challenge_scalar(t2, LabelR)
       IN  /\ round_polys' = [round_polys EXCEPT ![k] = Append(@, round_poly)]
           /\ pt' = [pt EXCEPT ![k] = cs[2]]
           /\ p_r' = [p_r EXCEPT ![k] = Append(@, cs[1])]
           /\ issued' = issued + 1
           /\ IF fold_first_var_panics(current_poly[k])
              THEN /\ p_pc' = [p_pc EXCEPT ![k] = "panic"]
                   /\ UNCHANGED current_poly
              ELSE /\ current_poly' =
                        [current_poly EXCEPT ![k] = fold_first_var(@, cs[1])]
                   /\ UNCHANGED p_pc
    /\ UNCHANGED << poly_vars, input_vars, verifier_vars, replay_vars >>

\* One iteration of prove's loop, in run k.  The runs are calls made one
\* after the other: prove, verify, and prove again from scratch.
ProveRound(k) ==
    /\ p_pc[k] = "loop"
    /\ k = 1 \/ VerifyReturned
    /\ Len(round_polys[k]) < StmtOf(k).n_vars
    /\ LET g == round_sum_g0_g1(current_poly[k])
           round_poly == RoundPoly_new(g[1], g[2])
           t1 == append_field(pt[k], LabelG0, g[1])
           t2 == append_field(t1, LabelG1, g[2])
           cs == challenge_scalar(t2, LabelR)
       IN  /\ round_polys' = [round_polys EXCEPT ![k] = Append(@, round_poly)]
           /\ pt' = [pt EXCEPT ![k] = cs[2]]
           /\ p_r' = [p_r EXCEPT ![k] = Append(@, cs[1])]
           /\ issued' = issued + 1
           /\ IF fold_first_var_panics(current_poly[k])
              THEN /\ p_pc' = [p_pc EXCEPT ![k] = "panic"]
                   /\ UNCHANGED current_poly
              ELSE /\ current_poly' =
                        [current_poly EXCEPT ![k] = fold_first_var(@, cs[1])]
                   /\ UNCHANGED p_pc
    /\ UNCHANGED << poly_vars, input_vars, verifier_vars, replay_vars >>

\* prove's loop is over: it returns SumcheckProof { round_polys }.
ProveReturn(k) ==
    /\ p_pc[k] = "loop"
    /\ k = 1 \/ VerifyReturned
    /\ Len(round_polys[k]) = StmtOf(k).n_vars
    /\ p_pc' = [p_pc EXCEPT ![k] = "done"]
    /\ UNCHANGED << poly_vars, input_vars, current_poly, round_polys, pt, p_r,
                    verifier_vars, issued, replay_vars >>

\* ------------------------------------------------------------------ verify

\* verify without the check of the round count.
VerifyStart_noCheck ==
    /\ v_pc = "Init"
    /\ forged \/ p_pc[1] = "done"
    /\ LET given == IF forged THEN << >> ELSE round_polys[1]
           n == IF forged THEN proof_len ELSE num_rounds(round_polys[1])
       IN  /\ proof' = given
           /\ proof_len' = n
           /\ v_pc' = IF n = 0 THEN "FinalOracleCheck" ELSE "Round"
           /\ claim' = stmt.claim_sum
           /\ UNCHANGED result
    /\ UNCHANGED << poly_vars, input_vars, prover_vars, r_vec, vt, queries,
                    issued, replay_vars >>

\* verify starting from the claim F::ZERO in place of stmt.claim_sum.
VerifyStart_claimZero ==
    /\ v_pc = "Init"
    /\ forged \/ p_pc[1] = "done"
    /\ LET given == IF forged THEN << >> ELSE round_polys[1]
           n == IF forged THEN proof_len ELSE num_rounds(round_polys[1])
       IN  /\ proof' = given
           /\ proof_len' = n
           /\ IF n # stmt.n_vars
              THEN /\ v_pc' = "Error"
                   /\ result' = "Err(DimensionMismatch)"
                   /\ UNCHANGED claim
              ELSE /\ v_pc' = IF n = 0 THEN "FinalOracleCheck" ELSE "Round"
                   /\ claim' = F_ZERO
                   /\ UNCHANGED result
    /\ UNCHANGED << poly_vars, input_vars, prover_vars, r_vec, vt, queries,
                    issued, replay_vars >>

\* The entry of verify: the round count is checked, claim and r_vec are set.
VerifyStart ==
    /\ v_pc = "Init"
    /\ forged \/ p_pc[1] = "done"
    /\ LET given == IF forged THEN << >> ELSE round_polys[1]
           n == IF forged THEN proof_len ELSE num_rounds(round_polys[1])
       IN  /\ proof' = given
           /\ proof_len' = n
           /\ IF n # stmt.n_vars
              THEN /\ v_pc' = "Error"
                   /\ result' = "Err(DimensionMismatch)"
                   /\ UNCHANGED claim
              ELSE /\ v_pc' = IF n = 0 THEN "FinalOracleCheck" ELSE "Round"
                   /\ claim' = stmt.claim_sum
                   /\ UNCHANGED result
    /\ UNCHANGED << poly_vars, input_vars, prover_vars, r_vec, vt, queries,
                    issued, replay_vars >>

\* verify's loop with the transcript appends made before the sum check.
VerifyRound_appendFirst ==
    /\ v_pc = "Round"
    /\ \E round_poly \in
            IF forged THEN RoundPolyValues ELSE {proof[Len(r_vec) + 1]} :
        /\ proof' = IF forged THEN Append(proof, round_poly) ELSE proof
        /\ IF RoundPoly_panics(round_poly)
           THEN /\ v_pc' = "Aborted"
                /\ result' = "Panic"
                /\ UNCHANGED << claim, r_vec, vt, issued >>
           ELSE LET g0 == eval_0(round_poly)
                    g1 == eval_1(round_poly)
                    t1 == append_field(vt, LabelG0, g0)
                    t2 == append_field(t1, LabelG1, g1)
                    cs == challenge_scalar(t2, LabelR)
                IN  IF Add(g0, g1) # claim
                    THEN /\ v_pc' = "Error"
                         /\ result' = "Err(InvalidProof)"
                         /\ vt' = t2
                         /\ UNCHANGED << claim, r_vec, issued >>
                    ELSE /\ vt' = cs[2]
                         /\ issued' = issued + 1
                         /\ r_vec' = Append(r_vec, cs[1])
                         /\ claim' = RoundPoly_eval(round_poly, cs[1])
                         /\ v_pc' = IF Len(r_vec) + 1 = proof_len
                                    THEN "FinalOracleCheck" ELSE "Round"
                         /\ UNCHANGED result
    /\ UNCHANGED << poly_vars, input_vars, prover_vars, proof_len, queries,
                    replay_vars >>

\* One iteration of verify's loop over proof.round_polys.
VerifyRound ==
    /\ v_pc = "Round"
    /\ \E round_poly \in
            IF forged THEN RoundPolyValues ELSE {proof[Len(r_vec) + 1]} :
        /\ proof' = IF forged THEN Append(proof, round_poly) ELSE proof
        /\ IF RoundPoly_panics(round_poly)
           THEN /\ v_pc' = "Aborted"
                /\ result' = "Panic"
                /\ UNCHANGED << claim, r_vec, vt, issued >>
           ELSE LET g0 == eval_0(round_poly)
                    g1 == eval_1(round_poly)
                    t1 == append_field(vt, LabelG0, g0)
                    t2 == append_field(t1, LabelG1, g1)
                    cs == challenge_scalar(t2, LabelR)
                IN  IF Add(g0, g1) # claim
                    THEN /\ v_pc' = "Error"
                         /\ result' = "Err(InvalidProof)"
                         /\ UNCHANGED << claim, r_vec, vt, issued >>
                    ELSE /\ vt' = cs[2]
                         /\ issued' = issued + 1
                         /\ r_vec' = Append(r_vec, cs[1])
                         /\ claim' = RoundPoly_eval(round_poly, cs[1])
                         /\ v_pc' = IF Len(r_vec) + 1 = proof_len
                                    THEN "FinalOracleCheck" ELSE "Round"
                         /\ UNCHANGED result
    /\ UNCHANGED << poly_vars, input_vars, prover_vars, proof_len, queries,
                    replay_vars >>

\* The final check: oracle.query(&r_vec) against the claim.
VerifyFinal ==
    /\ v_pc = "FinalOracleCheck"
    /\ queries' = Append(queries, r_vec)
    /\ IF PolyOracle_query_panics(oracle, r_vec)
       THEN /\ v_pc' = "Aborted"
            /\ result' = "Panic"
       ELSE LET oracle_eval == PolyOracle_query(oracle, r_vec)
            IN  IF oracle_eval = claim
                THEN /\ v_pc' = "Accepted"
                     /\ result' = "Ok(true)"
                ELSE /\ v_pc' = "Rejected"
                     /\ result' = "Ok(false)"
    /\ UNCHANGED << poly_vars, input_vars, prover_vars, proof, proof_len,
                    claim, r_vec, vt, issued, replay_vars >>

\* ------------------------------------------------------------------ replay

\* A call made on transcript k; the log records it.
ReplayCall(k, o, t, outs) ==
    /\ Len(tlog[k]) < MaxOps
    /\ tlog' = [tlog EXCEPT ![k] = Append(@, o)]
    /\ ta' = [ta EXCEPT ![k] = t]
    /\ tbefore' = [tbefore EXCEPT ![k] = ta[k]]
    /\ touts' = [touts EXCEPT ![k] = outs]
    /\ UNCHANGED << poly_vars, input_vars, prover_vars, verifier_vars,
                    tdomain >>

\* append_message on transcript k.
ReplayAppendMessage(k) ==
    \E o \in {x \in TranscriptOps : x.op = "append_message"} :
        /\ ReplayCall(k, o, append_message(ta[k], o.label, o.bytes), touts[k])
        /\ UNCHANGED << issued, tforks >>

\* append_field on transcript k.
ReplayAppendField(k) ==
    \E o \in {x \in TranscriptOps : x.op = "append_field"} :
        /\ ReplayCall(k, o, append_field(ta[k], o.label, o.x), touts[k])
        /\ UNCHANGED << issued, tforks >>

\* challenge_scalar on transcript k.
ReplayChallengeScalar(k) ==
    \E o \in {x \in TranscriptOps : x.op = "challenge_scalar"} :
        LET cs == challenge_scalar(ta[k], o.label)
        IN  /\ ReplayCall(k, o, cs[2], Append(touts[k], cs[1]))
            /\ tforks' = [tforks EXCEPT
                    ![k] = Append(@, challenge_fork(ta[k], o.label).absorbed)]
            /\ issued' = issued + 1

\* ------------------------------------------------------------ MLPoly calls

\* The record of a call: the method, its receiver and argument, whether it
\* returned (ok) or panicked, and what it returned.
Call(op, self, arg, ok, out) ==
    [op |-> op, self |-> self, arg |-> arg, ok |-> ok, out |-> out]

\* mlp = MLPoly::zero(n_vars), the first call made.
PolyZero ==
    /\ call.op = "none"
    /\ \E n \in ZeroArgs, overflow_checks \in BOOLEAN :
          IF zero_overflows(n) /\ overflow_checks
          THEN /\ call' = Call("zero", mlp, n, FALSE, << >>)
               /\ UNCHANGED mlp
          ELSE /\ mlp' = zero(n)
               /\ call' = Call("zero", mlp, n, TRUE, zero(n))
    /\ UNCHANGED << input_vars, prover_vars, verifier_vars, issued,
                    replay_vars >>

\* mlp = MLPoly::from_evals(evals), the first call made.
PolyFromEvals ==
    /\ call.op = "none"
    /\ \E evals \in Tables :
          IF from_evals_panics(evals)
          THEN /\ call' = Call("from_evals", mlp, evals, FALSE, << >>)
               /\ UNCHANGED mlp
          ELSE /\ mlp' = from_evals(evals)
               /\ call' = Call("from_evals", mlp, evals, TRUE,
                               from_evals(evals))
    /\ UNCHANGED << input_vars, prover_vars, verifier_vars, issued,
                    replay_vars >>

\* A polynomial is at hand: a constructor returned it and no call has
\* panicked since.  The methods take &self, so a call that returns leaves
\* its receiver in the caller's hands.
PolyAtHand == call.op # "none" /\ call.ok

\* mlp.sum_all()
PolySumAll ==
    /\ PolyAtHand
    /\ call' = Call("sum_all", mlp, << >>, TRUE, sum_all(mlp))
    /\ UNCHANGED << mlp, input_vars, prover_vars, verifier_vars, issued,
                    replay_vars >>

\* mlp.fold_first_var(r): the caller goes on with the receiver or with the
\* polynomial returned.
PolyFoldFirstVar ==
    /\ PolyAtHand
    /\ \E r \in F, keep \in BOOLEAN :
          IF fold_first_var_panics(mlp)
          THEN /\ call' = Call("fold_first_var", mlp, r, FALSE, << >>)
               /\ UNCHANGED mlp
          ELSE /\ mlp' = IF keep THEN mlp ELSE fold_first_var(mlp, r)
               /\ call' = Call("fold_first_var", mlp, r, TRUE,
                               fold_first_var(mlp, r))
    /\ UNCHANGED << input_vars, prover_vars, verifier_vars, issued,
                    replay_vars >>

\* mlp.fold_many(r_vec): the caller goes on with the receiver or with the
\* polynomial returned.
PolyFoldMany ==
    /\ PolyAtHand
    /\ \E rs \in Points(mlp.n_vars), keep \in BOOLEAN :
          IF fold_many_panics(mlp, rs)
          THEN /\ call' = Call("fold_many", mlp, rs, FALSE, << >>)
               /\ UNCHANGED mlp
          ELSE /\ mlp' = IF keep THEN mlp ELSE fold_many(mlp, rs)
               /\ call' = Call("fold_many", mlp, rs, TRUE, fold_many(mlp, rs))
    /\ UNCHANGED << input_vars, prover_vars, verifier_vars, issued,
                    replay_vars >>

\* mlp.eval_at(x)
PolyEvalAt ==
    /\ PolyAtHand
    /\ \E x \in Points(mlp.n_vars) :
          call' = IF eval_at_panics(mlp, x)
                  THEN Call("eval_at", mlp, x, FALSE, << >>)
                  ELSE Call("eval_at", mlp, x, TRUE, eval_at(mlp, x))
    /\ UNCHANGED << mlp, input_vars, prover_vars, verifier_vars, issued,
                    replay_vars >>

\* mlp.round_sum_g0_g1()
PolyRoundSum ==
    /\ PolyAtHand
    /\ call' = Call("round_sum_g0_g1", mlp, << >>, TRUE, round_sum_g0_g1(mlp))
    /\ UNCHANGED << mlp, input_vars, prover_vars, verifier_vars, issued,
                    replay_vars >>

\* ---------------------------------------------------------- specifications

Next ==
    \/ \E k \in Runs : ProveRound(k)
    \/ \E k \in Runs : ProveReturn(k)
    \/ VerifyStart
    \/ VerifyRound
    \/ VerifyFinal

\* prove twice and verify the first proof, honestly.
Spec == Init /\ [][Next]_vars

\* prove, verify, and prove again under another claimed sum.
SpecClaims == InitClaims /\ [][Next]_vars

NextVerify == VerifyStart \/ VerifyRound \/ VerifyFinal

\* verify alone, on inputs of any origin.
SpecVerify == InitVerify /\ [][NextVerify]_vars

NextTamper ==
    \/ ProveRound(1)
    \/ ProveReturn(1)
    \/ VerifyStart
    \/ VerifyRound
    \/ VerifyFinal

\* prove, and verify on a proof of any content, each on its own transcript.
SpecTamper == InitTamper /\ [][NextTamper]_vars

NextReplay ==
    \E k \in Runs :
        \/ ReplayAppendMessage(k)
        \/ ReplayAppendField(k)
        \/ ReplayChallengeScalar(k)

\* Two transcripts driven independently.
SpecReplay == InitReplay /\ [][NextReplay]_vars

NextPoly ==
    \/ PolyZero
    \/ PolyFromEvals
    \/ PolySumAll
    \/ PolyFoldFirstVar
    \/ PolyFoldMany
    \/ PolyEvalAt
    \/ PolyRoundSum

\* The MLPoly methods called on polynomials built by the constructors.
SpecPoly == InitPoly /\ [][NextPoly]_vars

\* ------------------------------------------------------------------ claims

RECURSIVE ReplayRounds(_, _)
\* The transcript t after the g0/g1 appends and the challenge of each of the
\* round polynomials rps, in order.
ReplayRounds(t, rps) ==
    IF rps = << >> THEN t
    ELSE LET t1 == append_field(t, LabelG0, Head(rps).evals[1])
             t2 == append_field(t1, LabelG1, Head(rps).evals[2])
         IN  ReplayRounds(challenge_scalar(t2, LabelR)[2], Tail(rps))

RECURSIVE ReplayChallenges(_, _)
\* The challenges derived on the way, in round order.
ReplayChallenges(t, rps) ==
    IF rps = << >> THEN << >>
    ELSE LET t1 == append_field(t, LabelG0, Head(rps).evals[1])
             t2 == append_field(t1, LabelG1, Head(rps).evals[2])
             cs == challenge_scalar(t2, LabelR)
         IN  << cs[1] >> \o ReplayChallenges(cs[2], Tail(rps))

\* g(0) + (g(1) - g(0)) * x in the field, written out.
LinearAt(g0, g1, x) == (g0 + (g1 + FieldP - g0) * x) % FieldP

\* The claim verify holds when it enters round i (0-based): the claimed sum,
\* or the previous round polynomial at the previous challenge.
ClaimAtRound(i) ==
    IF i = 0 THEN stmt.claim_sum
    ELSE LinearAt(proof[i].evals[1], proof[i].evals[2], r_vec[i])

\* C1: in an honest run whose claimed sum is f.sum_all(), verify on the
\* prover's proof, a fresh transcript of the same domain and the oracle over
\* f returns Ok(true).
C1_Completeness ==
    (stmt.claim_sum = sum_all(poly) /\ VerifyReturned) => result = "Ok(true)"

C1_Witness ==
    /\ stmt.n_vars = MaxVars
    /\ stmt.claim_sum = sum_all(poly)
    /\ poly # zero(MaxVars)
    /\ Len(r_vec) = MaxVars
    /\ result = "Ok(true)"

\* C2 as stated: for every polynomial, the claimed sum f.sum_all() + 1 makes
\* verify return InvalidProof, at round 0.
C2_Original ==
    (stmt.claim_sum = Add(sum_all(poly), F_ONE) /\ VerifyReturned)
        => (result = "Err(InvalidProof)" /\ r_vec = << >>)

\* C2, amended: for every polynomial of at least one variable, the claimed
\* sum f.sum_all() + 1 makes verify return InvalidProof at round 0: no
\* challenge was derived, the transcript is as created, the oracle unasked.
C2_WrongClaimRejected ==
    (stmt.n_vars >= 1 /\ stmt.claim_sum = Add(sum_all(poly), F_ONE)
        /\ VerifyReturned)
        => /\ result = "Err(InvalidProof)"
           /\ r_vec = << >>
           /\ vt = Transcript_new(domain)
           /\ queries = << >>

C2_Witness ==
    /\ stmt.n_vars >= 1
    /\ stmt.claim_sum = Add(sum_all(poly), F_ONE)
    /\ result = "Err(InvalidProof)"
    /\ r_vec = << >>

\* C3: a proof whose round count differs from stmt.n_vars gets
\* DimensionMismatch before anything else happens: no record of the proof
\* was read, the transcript is as created (hash state and counter), and the
\* oracle was not queried.
C3_DimensionMismatch ==
    (v_pc # "Init" /\ proof_len # stmt.n_vars)
        => /\ result = "Err(DimensionMismatch)"
           /\ v_pc = "Error"
           /\ proof = << >>
           /\ vt = Transcript_new(domain)
           /\ vt.ctr = 0
           /\ queries = << >>

C3_Witness ==
    /\ forged
    /\ proof_len = stmt.n_vars + 1
    /\ stmt.n_vars >= 1
    /\ result = "Err(DimensionMismatch)"

\* C4: verify returns InvalidProof exactly when the record it read at some
\* round i has g0 + g1 different from the claim held at that round; it has
\* then absorbed the appends and challenges of rounds 0..i-1 and nothing of
\* round i (counter = i), has not queried the oracle, and takes no further
\* step.
C4_SoundnessGate ==
    /\ (forged /\ Len(proof) = Len(r_vec) + 1
            /\ Len(proof[Len(proof)].evals) >= 2)
        => result = "Err(InvalidProof)"
    /\ forged
        => \A i \in 0 .. (Len(proof) - 1) :
              (/\ Len(proof[i + 1].evals) >= 2
               /\ (proof[i + 1].evals[1] + proof[i + 1].evals[2]) % FieldP
                    # ClaimAtRound(i))
                => /\ result = "Err(InvalidProof)"
                   /\ Len(r_vec) = i
                   /\ Len(proof) = i + 1
    /\ result = "Err(InvalidProof)"
        => LET i == Len(r_vec)
           IN  /\ v_pc = "Error"
               /\ Len(proof) >= i + 1
               /\ (proof[i + 1].evals[1] + proof[i + 1].evals[2]) % FieldP
                    # ClaimAtRound(i)
               /\ \A j \in 0 .. (i - 1) :
                    (proof[j + 1].evals[1] + proof[j + 1].evals[2]) % FieldP
                        = IF j = 0 THEN stmt.claim_sum
                          ELSE LinearAt(proof[j].evals[1], proof[j].evals[2],
                                        r_vec[j])
               /\ vt = ReplayRounds(Transcript_new(domain), SubSeq(proof, 1, i))
               /\ vt.ctr = i
               /\ queries = << >>
               /\ ~ ENABLED NextVerify

C4_Witness ==
    /\ forged
    /\ result = "Err(InvalidProof)"
    /\ Len(r_vec) >= 1
    /\ vt.ctr = Len(r_vec)

\* Every round check verify made on the records it read passed.
RoundChecksPassed ==
    \A j \in 0 .. (Len(proof) - 1) :
        /\ Len(proof[j + 1].evals) >= 2
        /\ j < Len(r_vec)
        /\ (proof[j + 1].evals[1] + proof[j + 1].evals[2]) % FieldP
            = IF j = 0 THEN stmt.claim_sum
              ELSE LinearAt(proof[j].evals[1], proof[j].evals[2], r_vec[j])

\* verify made its final check: it read the whole proof and returned from
\* the oracle query, or aborted in it.
FinalCheckMade ==
    \/ v_pc \in {"Accepted", "Rejected"}
    \/ v_pc = "Aborted" /\ Len(proof) = Len(r_vec)

\* C5 as stated: the oracle is queried only by the final check, once, at
\* r_vec; when the round count matches and every round check passed, r_vec
\* holds the n_vars challenges in round order and verify returns Ok(true) if
\* the oracle's answer equals the final claim (the last round polynomial at
\* the last challenge, stmt.claim_sum when n_vars = 0), Ok(false) if not.
C5_FinalCheck ==
    /\ queries = IF FinalCheckMade THEN << r_vec >> ELSE << >>
    /\ v_pc \in {"Accepted", "Rejected"}
        => (proof_len = stmt.n_vars /\ Len(proof) = proof_len
                /\ RoundChecksPassed)
    /\ (VerifyReturned /\ proof_len = stmt.n_vars /\ Len(proof) = proof_len
            /\ RoundChecksPassed)
        => /\ Len(r_vec) = stmt.n_vars
           /\ r_vec = ReplayChallenges(Transcript_new(domain), proof)
           /\ result \in {"Ok(true)", "Ok(false)"}
           /\ result = IF PolyOracle_query(oracle, r_vec)
                            = ClaimAtRound(stmt.n_vars)
                        THEN "Ok(true)" ELSE "Ok(false)"
           /\ v_pc = IF result = "Ok(true)" THEN "Accepted" ELSE "Rejected"

\* C6 as stated: verify steps Init, Round 0, ..., Round n-1,
\* FinalOracleCheck and ends in Accepted or Rejected; Error is entered only
\* from Init on a dimension mismatch or from a Round on a sum mismatch; the
\* outcome of FinalOracleCheck is Accepted or Rejected only.
C6_StateMachine ==
    [][/\ v_pc = "Init"
            => v_pc' \in {"Round", "FinalOracleCheck", "Error"}
       /\ v_pc = "Round"
            => v_pc' \in {"Round", "FinalOracleCheck", "Error"}
       /\ v_pc = "FinalOracleCheck" => v_pc' \in {"Accepted", "Rejected"}
       /\ v_pc' = "Error"
            => \/ v_pc = "Init" /\ proof_len' # stmt.n_vars
               \/ v_pc = "Round" /\ result' = "Err(InvalidProof)"
       /\ v_pc' = "FinalOracleCheck" => Len(r_vec') = stmt.n_vars
       /\ v_pc' = "Round" => Len(r_vec') < stmt.n_vars]_vars

\* C7 as stated: an evaluation call that receives the wrong number of points
\* is reported to the caller of verify as Err(DimensionMismatch).
C7_ErrorsAreValues ==
    (VerifyReturned /\ queries # << >>
        /\ Len(queries[1]) # oracle.poly.n_vars)
        => result = "Err(DimensionMismatch)"

\* C8 as stated, for oracles over a polynomial of the statement's dimension:
\* on a proof with the statement's round count, whatever its records hold,
\* verify ends in Ok(true), Ok(false) or one of the Error kinds.
C8_DefinedOutcome ==
    (VerifyReturned /\ proof_len = stmt.n_vars
        /\ oracle.poly.n_vars = stmt.n_vars)
        => result \in {"Ok(true)", "Ok(false)", "Err(InvalidProof)",
                       "Err(TranscriptMismatch)", "Err(DimensionMismatch)"}

\* a is a prefix of b.
IsPrefix(a, b) == Len(a) <= Len(b) /\ SubSeq(b, 1, Len(a)) = a

\* The length of the hash output.
OutLen == BytesNeeded(DigestMod)

\* The length of a serialized field element.
OutLenField == BytesNeeded(FieldP)

\* What an append call makes the live hasher absorb.
FramedAppend(label, bytes) ==
    TagAppend \o le_bytes(Len(label), 8) \o label
        \o le_bytes(Len(bytes), 8) \o bytes

RECURSIVE CallsSpell(_, _, _)
\* The bytes are what the calls of the log, in order, make the live hasher
\* absorb: the framed label and message of every append, and for every
\* challenge the ratchet tag and a hash output that reduces to the challenge
\* returned (outs, in order).
CallsSpell(log, outs, bytes) ==
    IF log = << >> THEN bytes = << >> /\ outs = << >>
    ELSE LET o == Head(log)
             framed == IF o.op = "challenge_scalar"
                       THEN TagRatchet \o SubSeq(bytes, Len(TagRatchet) + 1,
                                                 Len(TagRatchet) + OutLen)
                       ELSE FramedAppend(o.label,
                                IF o.op = "append_message" THEN o.bytes
                                ELSE le_bytes(o.x, OutLenField))
         IN  /\ IsPrefix(framed, bytes)
             /\ o.op = "challenge_scalar"
                    => /\ outs # << >>
                       /\ Len(framed) = Len(TagRatchet) + OutLen
                       /\ le_value(SubSeq(framed, Len(TagRatchet) + 1,
                                          Len(framed))) % FieldP = Head(outs)
             /\ CallsSpell(Tail(log),
                           IF o.op = "challenge_scalar" /\ outs # << >>
                           THEN Tail(outs) ELSE outs,
                           SubSeq(bytes, Len(framed) + 1, Len(bytes)))

\* The state of transcript k is fixed by its domain label and its calls: the
\* hasher has absorbed the label, its length and the label again, then what
\* the calls spell, its chaining value carried on from before the last call
\* over the bytes of that call; the counter is the number of challenges
\* returned.
StateFromCalls(k) ==
    LET created == tdomain[k] \o le_bytes(Len(tdomain[k]), 8) \o tdomain[k]
        live == ta[k].h.absorbed
    IN  /\ IsPrefix(created, live)
        /\ CallsSpell(tlog[k], touts[k],
                      SubSeq(live, Len(created) + 1, Len(live)))
        /\ ta[k].h.cv =
              Compress(tbefore[k].h.cv,
                       SubSeq(live, Len(tbefore[k].h.absorbed) + 1, Len(live)))
        /\ ta[k].ctr = Len(touts[k])

RECURSIVE ProveCalls(_)
\* The transcript calls prove makes for the round polynomials rps: g0 and g1
\* appended under their labels, then the challenge "r", round after round.
ProveCalls(rps) ==
    IF rps = << >> THEN << >>
    ELSE << [op |-> "append_field", label |-> LabelG0, x |-> eval_0(Head(rps))],
            [op |-> "append_field", label |-> LabelG1, x |-> eval_1(Head(rps))],
            [op |-> "challenge_scalar", label |-> LabelR] >>
         \o ProveCalls(Tail(rps))

RECURSIVE RoundsFrom(_, _, _)
\* The round polynomials rps are the (g0, g1) of p, of p folded at the first
\* challenge of rs, of that folded at the second, and so on.
RoundsFrom(p, rs, rps) ==
    IF rps = << >> THEN TRUE
    ELSE /\ Head(rps).evals = round_sum_g0_g1(p)
         /\ rs # << >>
         /\ Tail(rps) = << >>
                \/ RoundsFrom(fold_first_var(p, Head(rs)), Tail(rs), Tail(rps))

\* Run k of prove is fixed by the polynomial, the domain label and the
\* challenges drawn: round polynomial i is the (g0, g1) of the polynomial
\* folded at the first i challenges, and the transcript has absorbed the
\* domain label as Transcript::new frames it and then what prove's calls
\* spell, with one challenge counted per round.
ProveFromInputs(k) ==
    LET created == domain \o le_bytes(Len(domain), 8) \o domain
        live == pt[k].h.absorbed
    IN  /\ Len(p_r[k]) = Len(round_polys[k])
        /\ RoundsFrom(poly, p_r[k], round_polys[k])
        /\ IsPrefix(created, live)
        /\ CallsSpell(ProveCalls(round_polys[k]), p_r[k],
                      SubSeq(live, Len(created) + 1, Len(live)))
        /\ pt[k].ctr = Len(round_polys[k])

C11_RoundSumConsistency ==
    call.op = "round_sum_g0_g1"
        => (call.out[1] + call.out[2]) % FieldP = sum_all(call.self)

\* The even-indexed (k = 0) or odd-indexed (k = 1) subtable of a table.
Subtable(evals, k) ==
    [i \in 1 .. (Len(evals) \div 2) |-> evals[2 * i - 1 + k]]

\* C12: for every f of at least one variable, fold_first_var(f, 0).evals is
\* the even-indexed subtable of f.evals, and fold_first_var(f, 1).evals the
\* odd-indexed one.
C12_FoldBoundary ==
    (call.op = "fold_first_var" /\ call.self.n_vars >= 1)
        => /\ call.ok
           /\ call.arg = 0 => call.out.evals = Subtable(call.self.evals, 0)
           /\ call.arg = 1 % FieldP
                => call.out.evals = Subtable(call.self.evals, 1)

C12_Witness ==
    /\ call.op = "fold_first_var"
    /\ call.ok
    /\ call.self.n_vars = MaxVars
    /\ call.arg = 1
    /\ Subtable(call.self.evals, 0) # Subtable(call.self.evals, 1)
    /\ call.out.evals = Subtable(call.self.evals, 1)

\* The invariant of the MLPoly data model: evals.length = 2^n_vars (which
\* is more than n_vars).
WellShaped(p) == p.n_vars < Len(p.evals) /\ Len(p.evals) = Pow2(p.n_vars)

RECURSIVE index_from_bits(_)
\* The index whose binary digits are x, x[1] the least significant.
index_from_bits(x) ==
    IF x = << >> THEN 0 ELSE Head(x) + 2 * index_from_bits(Tail(x))

C20_ShapeInvariant ==
    /\ WellShaped(mlp)
    /\ (call.op \in {"zero", "from_evals", "fold_first_var", "fold_many"}
            /\ call.ok)
        => WellShaped(call.out)
    /\ (call.op = "zero" /\ call.ok)
        => call.out.n_vars = call.arg
    /\ call.op = "fold_first_var"
        => /\ call.ok = (call.self.n_vars # 0)
           /\ call.ok
                => /\ call.out.n_vars = call.self.n_vars - 1
                   /\ \A i \in 0 .. (Len(call.out.evals) - 1) :
                        call.out.evals[i + 1] =
                            (call.self.evals[2 * i + 1]
                                    * (1 + FieldP - call.arg)
                                + call.self.evals[2 * i + 2] * call.arg)
                            % FieldP
    /\ call.op = "from_evals"
        => /\ call.ok = (\E k \in 0 .. MaxVars : Len(call.arg) = Pow2(k))
           /\ call.ok => call.out.evals = call.arg

\* What the last challenge of a transcript was derived from: the bytes
\* absorbed before the ratchet, the challenge tag, the label "r" with its
\* length, and the counter at that time.
LastChallengeInput(t) ==
    SubSeq(t.h.absorbed, 1, Len(t.h.absorbed) - Len(TagRatchet) - OutLen)
        \o TagChal \o to_le_bytes(Len(LabelR)) \o LabelR
        \o to_le_bytes(t.ctr - 1)

\* The last challenge of a transcript, read back from the ratchet.
LastChallenge(t) ==
    from_le_bytes_mod_order(
        SubSeq(t.h.absorbed, Len(t.h.absorbed) - OutLen + 1,
               Len(t.h.absorbed)))

\* Run k of prove has not failed, has made at most n_vars rounds and all of
\* them once it returned; entry i of round_polys is the (g0, g1) of poly with
\* its first i variables folded at the challenges derived in rounds
\* 0..i-1, and current_poly is poly after all the folds made.
ProveShape(k) ==
    LET n == Len(round_polys[k])
    IN  /\ p_pc[k] \in {"loop", "done"}
        /\ n <= stmt.n_vars
        /\ p_pc[k] = "done" => n = stmt.n_vars
        /\ pt[k].ctr = n
        /\ Len(p_r[k]) = n
        /\ n >= 1 => p_r[k][n] = LastChallenge(pt[k])
        /\ current_poly[k] = fold_many(poly, p_r[k])
        /\ \A i \in 0 .. (n - 1) :
              LET folded == fold_many(poly, SubSeq(p_r[k], 1, i))
              IN  round_polys[k][i + 1].evals =
                      << SumSeq(Subtable(folded.evals, 0)),
                         SumSeq(Subtable(folded.evals, 1)) >>

\* C14: on a statement and a polynomial of stmt.n_vars variables with
\* 2^n_vars evaluations, prove never fails, makes no more than stmt.n_vars
\* rounds, and the proof it returns has exactly stmt.n_vars entries, entry i
\* being the (g0, g1) of the polynomial after folding the first i variables
\* at the challenges r_0..r_{i-1}.
C14_ProveInfallible == \A k \in Runs : ProveShape(k)

C14_Witness ==
    /\ p_pc[1] = "done"
    /\ stmt.n_vars = MaxVars
    /\ Len(round_polys[1]) = MaxVars
    /\ current_poly[1].n_vars = 0
    /\ round_polys[1][MaxVars].evals[1] # round_polys[1][MaxVars].evals[2]

\* C15: for n_vars = 1, evaluations [a, b] and claim_sum = a + b, prove
\* returns exactly one RoundPoly, with g0 = a and g1 = b, and verify with
\* the oracle over the polynomial returns Ok(true).
C15_SingleVariable ==
    (stmt.n_vars = 1 /\ stmt.claim_sum = (poly.evals[1] + poly.evals[2]) % FieldP)
        => /\ \A k \in Runs :
                p_pc[k] = "done"
                    => round_polys[k] =
                          << [evals |-> << poly.evals[1], poly.evals[2] >>] >>
           /\ VerifyReturned => result = "Ok(true)"

C15_Witness ==
    /\ stmt.n_vars = 1
    /\ poly.evals[1] # poly.evals[2]
    /\ stmt.claim_sum = (poly.evals[1] + poly.evals[2]) % FieldP
    /\ round_polys[1] = << [evals |-> << poly.evals[1], poly.evals[2] >>] >>
    /\ result = "Ok(true)"

\* The g0/g1 messages of the first m rounds of the proof verify read are
\* those the prover appended.
SameMessages(m) ==
    \A j \in 1 .. m :
        /\ proof[j].evals[1] = round_polys[1][j].evals[1]
        /\ proof[j].evals[2] = round_polys[1][j].evals[2]

\* C16: when verify and prove have made the same number m of rounds, on
\* fresh transcripts of the same domain, the challenge of round m - 1 was
\* derived from the same hash input in both exactly if the g0/g1 messages of
\* rounds 0..m-1 of the proof are the prover's; if they are, the two
\* challenges are equal and the two transcripts are in the same state.
C16_ChallengeAgreement ==
    LET m == Len(r_vec)
    IN  (m = Len(round_polys[1]) /\ p_pc[1] # "idle")
            => /\ m >= 1
                    => (LastChallengeInput(vt) = LastChallengeInput(pt[1]))
                            = SameMessages(m)
               /\ SameMessages(m)
                    => /\ vt = pt[1]
                       /\ r_vec = p_r[1]

\* The proof read so far is the prover's: the challenges agree.
C16_Witness ==
    /\ forged
    /\ Len(r_vec) = MaxVars
    /\ Len(round_polys[1]) = MaxVars
    /\ SameMessages(MaxVars)
    /\ vt = pt[1]
    /\ r_vec = p_r[1]

\* The challenge_scalar calls among the calls of a log, in order.
ChallengeCalls(log) == SelectSeq(log, LAMBDA o : o.op = "challenge_scalar")

\* The last n elements of a sequence.
LastBytes(bytes, n) == SubSeq(bytes, Len(bytes) - n + 1, Len(bytes))

\* C17: the counter of a transcript is 0 at creation, grows by one with
\* every challenge_scalar call and is left alone by append_message and
\* append_field: it is the number of challenges issued; the i-th challenge
\* (from 0) was derived from an input ending in the counter value i, so no
\* two challenges of one transcript were derived from the same input.
C17_ChallengeCounter ==
    \A k \in Runs :
        /\ ta[k].ctr = Len(ChallengeCalls(tlog[k]))
        /\ ta[k].ctr = Len(touts[k])
        /\ Len(tforks[k]) = Len(touts[k])
        /\ tlog[k] = << >> => ta[k].ctr = 0
        /\ tlog[k] # << >>
            => ta[k].ctr =
                IF tlog[k][Len(tlog[k])].op = "challenge_scalar"
                THEN tbefore[k].ctr + 1 ELSE tbefore[k].ctr
        /\ \A i \in 1 .. Len(tforks[k]) :
              /\ LastBytes(tforks[k][i], 8) = le_bytes(i - 1, 8)
              /\ \A j \in 1 .. Len(tforks[k]) :
                    i # j => tforks[k][i] # tforks[k][j]

C17_Witness ==
    /\ Len(tlog[1]) = MaxOps
    /\ \A i \in 1 .. MaxOps : tlog[1][i] = tlog[1][1]
    /\ tlog[1][1].op = "challenge_scalar"
    /\ ta[1].ctr = MaxOps
    /\ LastBytes(tforks[1][MaxOps], 8) = le_bytes(MaxOps - 1, 8)

\* The bytes an append call hands to append_message.
OpBytes(o) ==
    IF o.op = "append_message" THEN o.bytes ELSE le_bytes(o.x, OutLenField)

\* The last call on transcript k, if a challenge_scalar call: its fork had
\* absorbed the live bytes, the challenge tag, the label's length, the label
\* and the counter; the challenge returned is the fork's hash output,
\* reduced; the live hasher has absorbed the ratchet tag and that output
\* and nothing else, and the counter is one more.
ForkThenRatchet(k) ==
    LET o == tlog[k][Len(tlog[k])]
        tail == TagChal \o le_bytes(Len(o.label), 8) \o o.label
                    \o le_bytes(tbefore[k].ctr, 8)
        fork == [absorbed |-> tbefore[k].h.absorbed \o tail,
                 cv |-> Compress(tbefore[k].h.cv, tail)]
        out == finalize_fixed_reset(fork)
    IN  o.op = "challenge_scalar"
            => /\ tforks[k][Len(tforks[k])] = fork.absorbed
               /\ touts[k][Len(touts[k])] = le_value(out) % FieldP
               /\ ta[k].h.absorbed =
                    tbefore[k].h.absorbed \o TagRatchet \o out
               /\ ta[k].h.cv = Compress(tbefore[k].h.cv, TagRatchet \o out)
               /\ ta[k].ctr = tbefore[k].ctr + 1

\* C18: challenge_scalar computes its output on a clone of the live hasher
\* that absorbs the challenge tag, the label's length, the label and the
\* counter, and changes the live hasher only by absorbing the ratchet tag
\* and the output; every call extends the live bytes, so every later fork
\* starts from the bytes of every message appended and of every challenge
\* issued before it.
C18_ForkThenRatchet ==
    \A k \in Runs :
        /\ IsPrefix(tbefore[k].h.absorbed, ta[k].h.absorbed)
        /\ tlog[k] = << >> => ta[k] = tbefore[k]
        /\ tlog[k] # << >> => ForkThenRatchet(k)

C18_Witness ==
    /\ Len(tlog[1]) = MaxOps
    /\ tlog[1][1].op = "challenge_scalar"
    /\ tlog[1][MaxOps].op = "challenge_scalar"
    /\ tlog[1][1].label # tlog[1][MaxOps].label
    /\ Len(tforks[1]) >= 2
    /\ SubSeq(LastBytes(ta[1].h.absorbed, Len(TagRatchet) + OutLen),
              1, Len(TagRatchet)) = TagRatchet
    /\ le_value(LastBytes(ta[1].h.absorbed, OutLen)) % FieldP
            = touts[1][Len(touts[1])]

\* The (label, bytes) appends among the calls of a log, in order.
Appends(log) ==
    LET calls == SelectSeq(log, LAMBDA o : o.op # "challenge_scalar")
    IN  [i \in 1 .. Len(calls) |-> << calls[i].label, OpBytes(calls[i]) >>]

\* C19 as stated: two transcripts of the same domain that were given
\* different sequences of (label, bytes) appends have absorbed different
\* byte streams, and so have two transcripts created with different domains.
C19_UnambiguousAbsorption ==
    /\ (tdomain[1] = tdomain[2] /\ Appends(tlog[1]) # Appends(tlog[2]))
        => ta[1].h.absorbed # ta[2].h.absorbed
    /\ tdomain[1] # tdomain[2] => ta[1].h.absorbed # ta[2].h.absorbed

RECURSIVE FoldPrefix(_, _, _)
\* p after fold_first_var at rs[1], ..., rs[k], one after the other.
FoldPrefix(p, rs, k) ==
    IF k = 0 THEN p ELSE fold_first_var(FoldPrefix(p, rs, k - 1), rs[k])

ProverPolyAtRound(i) == fold_many(poly, SubSeq(p_r[1], 1, i))

\* C22: in an honest run with claim_sum = f.sum_all(), the verifier derives
\* the prover's challenges and, at the start of every round i, its claim is
\* sum_all of the prover's polynomial folded at r_0..r_{i-1}: round
\* polynomial i at r_i equals sum_all(fold_first_var(current_poly_i, r_i)).
\* After the last round the claim is f.eval_at(r_0..r_{n-1}).
C22_ClaimChain ==
    (stmt.claim_sum = sum_all(poly) /\ v_pc # "Init")
        => LET m == Len(r_vec)
           IN  /\ v_pc \in {"Round", "FinalOracleCheck", "Accepted"}
               /\ m <= stmt.n_vars
               /\ v_pc = "Round" <=> m < stmt.n_vars
               /\ r_vec = SubSeq(p_r[1], 1, m)
               /\ claim = sum_all(ProverPolyAtRound(m))
               /\ \A i \in 0 .. (m - 1) :
                     /\ proof[i + 1] = round_polys[1][i + 1]
                     /\ Add(eval_0(proof[i + 1]), eval_1(proof[i + 1]))
                            = sum_all(ProverPolyAtRound(i))
                     /\ RoundPoly_eval(proof[i + 1], r_vec[i + 1])
                            = sum_all(fold_first_var(ProverPolyAtRound(i),
                                                     r_vec[i + 1]))
               /\ m = stmt.n_vars
                     => /\ ~ eval_at_panics(poly, r_vec)
                        /\ claim = eval_at(poly, r_vec)
                        /\ ProverPolyAtRound(m) = current_poly[1]

\* The last round is over on a polynomial of MaxVars variables, and the
\* claim went through values other than the claimed sum.
C22_Witness ==
    /\ stmt.claim_sum = sum_all(poly)
    /\ stmt.n_vars = MaxVars
    /\ v_pc = "Accepted"
    /\ Len(r_vec) = MaxVars
    /\ claim = eval_at(poly, r_vec)
    /\ claim # stmt.claim_sum
    /\ \E i \in 1 .. MaxVars : r_vec[i] \notin {0, 1}
    /\ sum_all(ProverPolyAtRound(1)) # claim

\* The two calls of prove, one under each claimed sum, agree: whenever they
\* have made the same number of rounds their proofs, transcripts and
\* polynomials are equal.
ClaimIndependent ==
    /\ IsPrefix(round_polys[2], round_polys[1])
    /\ Len(round_polys[1]) = Len(round_polys[2])
        => /\ round_polys[1] = round_polys[2]
           /\ pt[1] = pt[2]
           /\ p_r[1] = p_r[2]
           /\ current_poly[1] = current_poly[2]
    /\ p_pc[2] = "done"
        => /\ p_pc[1] = "done"
           /\ Len(round_polys[2]) = Len(round_polys[1])

\* What the calls do on a statement of no variables.
ZeroVariables ==
    /\ \A k \in Runs :
          /\ p_pc[k] \in {"loop", "done"}
          /\ round_polys[k] = << >>
          /\ pt[k] = Transcript_new(domain)
    /\ v_pc \in {"Init", "FinalOracleCheck", "Accepted", "Rejected"}
    /\ proof = << >>
    /\ r_vec = << >>
    /\ vt = Transcript_new(domain)
    /\ issued = 0
    /\ v_pc # "Init" => claim = stmt.claim_sum
    /\ VerifyReturned
        => /\ queries = << << >> >>
           /\ result = IF stmt.claim_sum = poly.evals[1]
                       THEN "Ok(true)" ELSE "Ok(false)"

\* C23: prove reads only stmt.n_vars: for a fixed polynomial and domain the
\* proof and the transcript after prove are the same under every claim_sum.
\* For n_vars = 0 prove returns the empty proof and leaves the transcript as
\* it was, and verify makes no round check and returns
\* Ok(claim_sum == f.evals[0]) with the PolyOracle: Ok(false), never an
\* InvalidProof error, on a wrong claim.
C23_ClaimIndependence ==
    /\ ClaimIndependent
    /\ stmt.n_vars = 0 => ZeroVariables

\* Two finished calls of prove on a polynomial of MaxVars variables under
\* two different claimed sums, the first of them wrong.
C23_Witness ==
    /\ stmt.n_vars = MaxVars
    /\ stmt.claim_sum # stmt_again.claim_sum
    /\ stmt.claim_sum # sum_all(poly)
    /\ p_pc[1] = "done"
    /\ p_pc[2] = "done"
    /\ Len(round_polys[2]) = MaxVars
    /\ round_polys[1] = round_polys[2]
    /\ pt[1] = pt[2]
    /\ pt[2].ctr = MaxVars
    /\ result = "Err(InvalidProof)"

====
